---- MODULE Spec2Model ----
(***************************************************************************)
(* Dexter research agent: the plan -> execute -> validate -> answer loop   *)
(* in its two implementations, Agent.run (src/dexter/agent.py, a linear    *)
(* loop) and AgentGraph.run (src/dexter/agent_graph.py, a LangGraph state  *)
(* graph), and the search_web quota of src/dexter/tools.py.                *)
(*                                                                         *)
(* The language-model gateway and the tools are the environment.  Each     *)
(* outcome of the environment (the planning response, the outcome of the   *)
(* execution of task i, the validator's verdict on task i, the outcome of  *)
(* the answer call) is drawn when an orchestrator first asks for it and    *)
(* is remembered in env_*, so that Agent and AgentGraph, run on the same   *)
(* query, meet the same outcomes.                                          *)
(***************************************************************************)
EXTENDS Integers, Sequences, FiniteSets, TLC

\* ------------------------------------------------------------------ bounds

\* The longest plan the gateway returns.
MaxTasks == 3
\* The constructor argument max_steps the orchestrators are built with
\* (cli.py --max-steps); low enough for runs of MaxTasks tasks to reach it.
CfgMaxSteps == 2
\* The highest configured search ceiling, and the number of search_web
\* calls a process makes.
MaxLimit == 2
MaxSearchCalls == 4
\* The longest expression handed to calculator, in characters.
MaxExprLen == 3
\* The most tool calls one gateway response asks for.
MaxToolCallsPerResponse == 2
\* The threads that call search_web concurrently.
NumThreads == 2

\* ------------------------------------------------------------- constants

\* Agent.__init__ / AgentGraph.__init__: max_steps_per_task defaults to 3.
DefaultMaxStepsPerTask == 3
\* context[-5:], session_outputs[-5:]
ContextWindow == 5

VARIABLES
    running,              \* the orchestrators this process constructed and runs
    query,                \* the query both orchestrators are run on
    env_plan,             \* planning gateway outcome
    env_exec,             \* per task: outcome of task_executor.invoke
    env_val,              \* per task: outcome of the validation gateway call
    env_ans,              \* outcome of the answer gateway call
    agent_pc,             \* Agent.run: position in the method
    agent_tasks,          \* Agent.run: tasks
    agent_pos,            \* Agent.run: position of `for task in tasks` (1-based)
    agent_session_outputs,\* Agent.run: session_outputs
    agent_answer,         \* Agent.run: the value returned
    agent_trace,          \* history of the gateway/executor calls Agent.run made
    graph_node,           \* AgentGraph: the node to run next
    graph_tasks,          \* AgentGraphState.tasks
    graph_current_task_idx,   \* AgentGraphState.current_task_idx (0-based)
    graph_session_outputs,    \* AgentGraphState.session_outputs
    graph_current_task_result,\* AgentGraphState.current_task_result
    graph_answer,         \* AgentGraphState.answer
    graph_trace,          \* history of the gateway/executor calls the graph made
    tavily_search_count,  \* tools._tavily_search_count
    tavily_limit,         \* TAVILY_MAX_SEARCHES_PER_SESSION as _get_tavily_limit reads it
    search_calls,         \* number of search_web calls made
    search_successes,     \* number of search_web calls that returned a provider response
    provider_calls,       \* number of TavilyClient.search calls made
    last_search,          \* the last search_web call: what it saw and returned
    calc_expression,      \* the expression calculator is called with
    calc_result,          \* the last calculator call: what it did and returned
    last_tool,            \* the last event of the tool module's process
    thread_pc,            \* per thread: where it stands inside search_web
    thread_count          \* per thread: the counter value it read to increment

envVars == <<running, query, env_plan, env_exec, env_val, env_ans>>
agentVars == <<agent_pc, agent_tasks, agent_pos, agent_session_outputs,
               agent_answer, agent_trace>>
graphVars == <<graph_node, graph_tasks, graph_current_task_idx,
               graph_session_outputs, graph_current_task_result,
               graph_answer, graph_trace>>
toolVars == <<tavily_search_count, tavily_limit, search_calls,
              search_successes, provider_calls, last_search,
              calc_expression, calc_result, last_tool,
              thread_pc, thread_count>>
threadVars == <<thread_pc, thread_count>>
vars == <<envVars, agentVars, graphVars, toolVars>>

\* ------------------------------------------------------------ environment

Queries == {"q"}

\* Agent(max_steps, max_steps_per_task) / AgentGraph(max_steps, max_steps_per_task)
max_steps == CfgMaxSteps
max_steps_per_task == DefaultMaxStepsPerTask

\* schemas.Task as the code uses it: Task(id=1, description=query, done=False)
Task(id, description, done) == [id |-> id, description |-> description, done |-> done]

\* The description the gateway gives the task at plan position i.
GatewayDescription(i) == <<"task", i>>

\* The gateway numbers the tasks of a plan from 1 or from 0; nothing in the
\* TaskList schema fixes the ids or the done flags it returns.
GatewayIdBases == {0, 1}

\* response.tasks of a successful planning call: any plan of at most
\* MaxTasks tasks, with any done flags.
GatewayTaskLists ==
    UNION { { [i \in 1..n |-> Task(b + i - 1, GatewayDescription(i), d[i])] :
                d \in [1..n -> BOOLEAN], b \in GatewayIdBases } : n \in 0..MaxTasks }

Unset == [kind |-> "unset", tasks |-> <<>>]
PlanOutcomes ==
    {[kind |-> "fail", tasks |-> <<>>]}
        \cup {[kind |-> "ok", tasks |-> ts] : ts \in GatewayTaskLists}

\* The number of tool calls one action-selection response may ask for.
\* llm.bind_tools(tools, parallel_tool_calls=False) holds it to one; tools
\* bound without that argument leave the provider free to ask for several.
ToolCallsPerResponse(parallel_tool_calls) ==
    IF parallel_tool_calls THEN 0..MaxToolCallsPerResponse ELSE 0..1

\* create_tool_calling_agent(llm, TOOLS, prompt_template): the task
\* executors bind the tools to the plain llm, not through call_llm.
executor_parallel_tool_calls == TRUE

\* The action-selection responses of one task execution, as the number of
\* tool calls each asks for, or would ask for were the gateway called
\* again (0: no tool decision): no tool decision at the first call, one
\* tool call per response, the most tool calls per response.
GatewayDecisions ==
    { d \in { [k \in 1..max_steps_per_task |-> IF k = 1 THEN 0 ELSE 1],
              [k \in 1..max_steps_per_task |-> 1],
              [k \in 1..max_steps_per_task |-> MaxToolCallsPerResponse] } :
        \A k \in DOMAIN d : d[k] \in ToolCallsPerResponse(executor_parallel_tool_calls) }

\* AgentExecutor(max_iterations=max_steps_per_task): while fewer than
\* max_iterations iterations were made, ask the gateway; without a tool
\* decision the loop ends, otherwise every tool call of the response is
\* invoked and the iteration counted. The result is the number of tool
\* invocations (the intermediate steps).
RECURSIVE agent_executor_calls(_, _, _)
agent_executor_calls(decisions, iterations, invoked) ==
    IF iterations >= max_steps_per_task \/ iterations >= Len(decisions) THEN invoked
    ELSE IF decisions[iterations + 1] = 0 THEN invoked
    ELSE agent_executor_calls(decisions, iterations + 1,
                              invoked + decisions[iterations + 1])

\* task_executor.invoke: it returns the intermediate steps, or raises at
\* its first or its second gateway call.
ExecOutcomes ==
    {[kind |-> "ok", decisions |-> d, calls |-> agent_executor_calls(d, 0, 0)] :
        d \in GatewayDecisions}
        \cup {[kind |-> "raise", decisions |-> d, calls |-> agent_executor_calls(d, 0, 0)] :
                d \in {<<>>, <<1>>}}
ExecUnset == [kind |-> "unset", decisions |-> <<>>, calls |-> 0]

\* validation_chain.invoke: IsDone(done=True), IsDone(done=False), or raises
ValOutcomes == {"done", "notdone", "fail"}
\* Answer{answer: string}: the gateway fills the field with a text ("ok")
\* or with the empty string ("empty").
AnswerShapes == {"ok", "empty"}
\* answer_chain.invoke: an Answer, or raises
AnsOutcomes == AnswerShapes \cup {"fail"}

PlanChoice == IF env_plan = Unset THEN PlanOutcomes ELSE {env_plan}
ExecChoice(i) == IF env_exec[i] = ExecUnset THEN ExecOutcomes ELSE {env_exec[i]}
ValChoice(i) == IF env_val[i] = "unset" THEN ValOutcomes ELSE {env_val[i]}
AnsChoice == IF env_ans = "unset" THEN AnsOutcomes ELSE {env_ans}

\* ---------------------------------------------------------------- helpers

\* seq[-n:]
LastN(seq, n) ==
    IF Len(seq) <= n THEN seq ELSE SubSeq(seq, Len(seq) - n + 1, Len(seq))

\* sep.join(items): the items in order with sep between neighbours
Join(sep, items) == [text |-> "", sep |-> sep, items |-> items]
Literal(text) == [text |-> text, sep |-> "", items |-> <<>>]

\* f"Tool: {tool_name}\nInput: {tool_input}\nOutput: {observation}" of the
\* k-th intermediate step of the execution of the task at plan position i
ToolRecord(i, k) == [task |-> i, step |-> k]
NewOutputs(i, calls) == [k \in 1..calls |-> ToolRecord(i, k)]

\* A context built from the oldest entries of the log: context[:5].
ContextStr_oldest_entries(context) ==
    IF context # <<>>
    THEN Join("\n", SubSeq(context, 1, IF Len(context) <= ContextWindow
                                       THEN Len(context) ELSE ContextWindow))
    ELSE Literal("No previous context.")

\* A log that keeps the records of the latest execution only.
extend_log_replacing(session_outputs, new_outputs) == new_outputs

\* session_outputs.append(output) for each step / session_outputs + new_outputs
extend_log(session_outputs, new_outputs) == session_outputs \o new_outputs

\* An error branch that still records the tool calls made before the error.
log_after_exec_error_keeping_steps(session_outputs, i, calls) ==
    extend_log(session_outputs, NewOutputs(i, calls))

\* The log after an execution that raised: the except branches of
\* Agent.run and executor_node never see the intermediate steps.
log_after_exec_error(session_outputs, i, calls) == session_outputs

\* "\n".join(context[-5:]) if context else "No previous context."
ContextStr(context) ==
    IF context # <<>> THEN Join("\n", LastN(context, ContextWindow))
    ELSE Literal("No previous context.")

\* A validator that is shown the execution context's window of the log.
ValidationResults_windowed(session_outputs) ==
    Join("\n", LastN(session_outputs, ContextWindow))

\* "\n".join(session_outputs)
ValidationResults(session_outputs) == Join("\n", session_outputs)

\* "\n\n".join(session_outputs) if session_outputs else "No data was collected."
AllResults(session_outputs) ==
    IF session_outputs # <<>> THEN Join("\n\n", session_outputs)
    ELSE Literal("No data was collected.")

\* The gateway's answer is a function of what it is given.
GatewayAnswer(q, results) == [kind |-> "answer", query |-> q, results |-> results]
FallbackAnswer == [kind |-> "Unable to generate answer due to an error.",
                   query |-> "", results |-> Literal("")]
\* The string "": the answer of AgentGraph's initial state, and the
\* answer field of an empty Answer.
EmptyString == [kind |-> "", query |-> "", results |-> Literal("")]
NoAnswer == EmptyString

Event(op, i, calls, raised, arg) ==
    [op |-> op, task |-> i, calls |-> calls, raised |-> raised, arg |-> arg]

\* A completion that flips the flag instead of setting it.
SetDone_flipping(tasks, i) == [tasks EXCEPT ![i].done = ~@]

\* task.done = True / current_task.done = True
SetDone(tasks, i) == [tasks EXCEPT ![i].done = TRUE]

\* A planning chain that has the tools and runs one of them.
chain_tool_calls_planner_with_tools(op) == IF op = "plan" THEN 1 ELSE 0

\* The tool invocations of one call of the planning, validation or answer
\* chain: each is prompt_template | llm.with_structured_output(Schema),
\* built without TOOLS.
chain_tool_calls(op) == 0

\* A done test that never finds a task done.
is_done_never(task) == FALSE

\* `if task.done:` / `if current_task.done:`
is_done(task) == task.done

\* ------------------------------------------------------ Agent (agent.py)

\* A planner that also falls back when the gateway returns an empty plan.
plan_tasks_fallback_on_empty(o, q) ==
    IF o.kind = "ok" /\ o.tasks # <<>> THEN o.tasks ELSE <<Task(1, q, FALSE)>>

\* plan_tasks: response.tasks, or the single fallback task
plan_tasks(o, q) ==
    IF o.kind = "ok" THEN o.tasks ELSE <<Task(1, q, FALSE)>>

\* validate_task: response.done, or False when the call raises
validate_task(v) == v = "done"

\* An answer call that is handed, besides the log, a record no tool
\* produced.
generate_answer_with_foreign_record(a, q, session_outputs) ==
    IF a = "ok"
    THEN GatewayAnswer(q, AllResults(Append(session_outputs, ToolRecord(0, 0))))
    ELSE IF a = "empty" THEN EmptyString
    ELSE FallbackAnswer

\* _generate_answer: response.answer, or the fixed fallback
generate_answer(a, q, session_outputs) ==
    IF a = "ok" THEN GatewayAnswer(q, AllResults(session_outputs))
    ELSE IF a = "empty" THEN EmptyString
    ELSE FallbackAnswer

\* Where Agent.run stands once the for loop moves to position p.
AgentLoopPc(p, tasks) == IF p > Len(tasks) THEN "answer" ELSE "loop"

AgentPlan ==
    /\ "agent" \in running
    /\ agent_pc = "plan"
    /\ \E o \in PlanChoice :
        LET tasks == plan_tasks(o, query) IN
        /\ env_plan' = o
        /\ agent_tasks' = tasks
        /\ agent_pos' = 1
        /\ agent_pc' = IF tasks = <<>> THEN "answer" ELSE AgentLoopPc(1, tasks)
        /\ agent_trace' = Append(agent_trace, Event("plan", 0, chain_tool_calls("plan"), o.kind = "fail",
                                       Literal(query)))
    /\ UNCHANGED <<running, query, env_exec, env_val, env_ans, agent_session_outputs, agent_answer>>
    /\ UNCHANGED <<graphVars, toolVars>>

\* `if task.done: continue`
AgentSkip ==
    /\ "agent" \in running
    /\ agent_pc = "loop"
    /\ is_done(agent_tasks[agent_pos])
    /\ agent_pos' = agent_pos + 1
    /\ agent_pc' = AgentLoopPc(agent_pos + 1, agent_tasks)
    /\ agent_trace' = Append(agent_trace, Event("skip", agent_pos, 0, FALSE, Literal("")))
    /\ UNCHANGED <<envVars, agent_tasks, agent_session_outputs, agent_answer>>
    /\ UNCHANGED <<graphVars, toolVars>>

\* The tasks after the except branch of Agent.run: task.done = True
AgentTasksAfterExecError(tasks, i) == SetDone(tasks, i)

\* _execute_task_with_agent and the collection of its intermediate steps;
\* when it raises, the except branch of run marks the task done and the
\* loop moves on.
AgentExecute ==
    /\ "agent" \in running
    /\ agent_pc = "loop"
    /\ ~is_done(agent_tasks[agent_pos])
    /\ \E o \in ExecChoice(agent_pos) :
        /\ env_exec' = [env_exec EXCEPT ![agent_pos] = o]
        /\ agent_trace' = Append(agent_trace,
               Event("exec", agent_pos, o.calls, o.kind = "raise",
                     ContextStr(agent_session_outputs)))
        /\ IF o.kind = "ok"
           THEN /\ agent_session_outputs' =
                       extend_log(agent_session_outputs, NewOutputs(agent_pos, o.calls))
                /\ agent_pc' = "validate"
                /\ UNCHANGED <<agent_tasks, agent_pos>>
           ELSE /\ agent_tasks' = AgentTasksAfterExecError(agent_tasks, agent_pos)
                /\ agent_pos' = agent_pos + 1
                /\ agent_pc' = AgentLoopPc(agent_pos + 1, agent_tasks)
                /\ agent_session_outputs' =
                       log_after_exec_error(agent_session_outputs, agent_pos, o.calls)
    /\ UNCHANGED <<running, query, env_plan, env_val, env_ans, agent_answer>>
    /\ UNCHANGED <<graphVars, toolVars>>

\* `if self.validate_task(...): task.done = True`, then the next task
AgentValidate ==
    /\ "agent" \in running
    /\ agent_pc = "validate"
    /\ \E v \in ValChoice(agent_pos) :
        /\ env_val' = [env_val EXCEPT ![agent_pos] = v]
        /\ agent_tasks' = IF validate_task(v) THEN SetDone(agent_tasks, agent_pos)
                          ELSE agent_tasks
        /\ agent_trace' = Append(agent_trace,
               Event("validate", agent_pos, chain_tool_calls("validate"), v = "fail",
                     ValidationResults(agent_session_outputs)))
    /\ agent_pos' = agent_pos + 1
    /\ agent_pc' = AgentLoopPc(agent_pos + 1, agent_tasks)
    /\ UNCHANGED <<running, query, env_plan, env_exec, env_ans, agent_session_outputs, agent_answer>>
    /\ UNCHANGED <<graphVars, toolVars>>

\* answer = self._generate_answer(query, session_outputs); return answer
AgentAnswer ==
    /\ "agent" \in running
    /\ agent_pc = "answer"
    /\ \E a \in AnsChoice :
        /\ env_ans' = a
        /\ agent_answer' = generate_answer(a, query, agent_session_outputs)
        /\ agent_trace' = Append(agent_trace,
               Event("answer", 0, chain_tool_calls("answer"), a = "fail",
                     AllResults(agent_session_outputs)))
    /\ agent_pc' = "done"
    /\ UNCHANGED <<running, query, env_plan, env_exec, env_val, agent_tasks, agent_pos,
                   agent_session_outputs>>
    /\ UNCHANGED <<graphVars, toolVars>>

AgentNext == AgentPlan \/ AgentSkip \/ AgentExecute \/ AgentValidate \/ AgentAnswer

\* ----------------------------------------------- AgentGraph (agent_graph.py)

\* planner_node: response.tasks, or the single fallback task
planner_tasks(o, q) ==
    IF o.kind = "ok" THEN o.tasks ELSE <<Task(1, q, FALSE)>>

\* A routing slip: the planner always hands over to the executor.
should_continue_after_planning_always_executor(tasks) == "executor"

should_continue_after_planning(tasks) ==
    IF tasks = <<>> THEN "answerer" ELSE "executor"

\* A routing slip: the validator always hands back to the executor.
should_continue_after_validation_always_executor(current_idx, tasks) == "executor"

should_continue_after_validation(current_idx, tasks) ==
    IF current_idx >= Len(tasks) THEN "answerer" ELSE "executor"

\* answerer_node: response.answer, or the fixed fallback
answerer_answer(a, q, session_outputs) ==
    IF a = "ok" THEN GatewayAnswer(q, AllResults(session_outputs))
    ELSE IF a = "empty" THEN EmptyString
    ELSE FallbackAnswer

\* The task list is 0-indexed in the code and 1-indexed here: tasks[idx]
\* of the code is tasks[idx + 1] of the model.
GraphCurrentTask == graph_tasks[graph_current_task_idx + 1]

planner_node ==
    /\ "graph" \in running
    /\ graph_node = "planner"
    /\ \E o \in PlanChoice :
        LET tasks == planner_tasks(o, query) IN
        /\ env_plan' = o
        /\ graph_tasks' = tasks
        /\ graph_node' = should_continue_after_planning(tasks)
        /\ graph_trace' = Append(graph_trace, Event("plan", 0, chain_tool_calls("plan"), o.kind = "fail",
                                       Literal(query)))
    /\ graph_current_task_idx' = 0
    /\ graph_session_outputs' = <<>>
    /\ UNCHANGED <<running, query, env_exec, env_val, env_ans, graph_current_task_result, graph_answer>>
    /\ UNCHANGED <<agentVars, toolVars>>

\* The tasks after the except branch of executor_node: it records the error
\* in current_task_result and leaves the tasks as they are.
GraphTasksAfterExecError(tasks, i) == tasks

\* executor_node, followed by the edge executor -> validator
executor_node ==
    /\ "graph" \in running
    /\ graph_node = "executor"
    /\ graph_node' = "validator"
    /\ IF graph_current_task_idx >= Len(graph_tasks)
       THEN UNCHANGED <<envVars, graph_tasks, graph_current_task_idx,
                        graph_session_outputs, graph_current_task_result, graph_trace>>
       ELSE IF is_done(GraphCurrentTask)
       THEN /\ graph_current_task_idx' = graph_current_task_idx + 1
            /\ graph_trace' = Append(graph_trace,
                   Event("skip", graph_current_task_idx + 1, 0, FALSE, Literal("")))
            /\ UNCHANGED <<envVars, graph_tasks, graph_session_outputs,
                           graph_current_task_result>>
       ELSE \E o \in ExecChoice(graph_current_task_idx + 1) :
            /\ env_exec' = [env_exec EXCEPT ![graph_current_task_idx + 1] = o]
            /\ graph_trace' = Append(graph_trace,
                   Event("exec", graph_current_task_idx + 1, o.calls, o.kind = "raise",
                         ContextStr(graph_session_outputs)))
            /\ IF o.kind = "ok"
               THEN /\ graph_session_outputs' = extend_log(graph_session_outputs,
                           NewOutputs(graph_current_task_idx + 1, o.calls))
                    /\ graph_current_task_result' = "result"
                    /\ UNCHANGED graph_tasks
               ELSE /\ graph_current_task_result' = "error"
                    /\ graph_tasks' = GraphTasksAfterExecError(graph_tasks,
                                          graph_current_task_idx + 1)
                    /\ graph_session_outputs' = log_after_exec_error(
                           graph_session_outputs, graph_current_task_idx + 1, o.calls)
            /\ UNCHANGED <<running, query, env_plan, env_val, env_ans, graph_current_task_idx>>
    /\ UNCHANGED graph_answer
    /\ UNCHANGED <<agentVars, toolVars>>

\* The tasks after validator_node's try/except on verdict v for task i:
\* done on a "done" verdict and, in the except branch, on a failed call.
GraphTasksAfterValidation(tasks, i, v) ==
    IF v = "done" \/ v = "fail" THEN SetDone(tasks, i) ELSE tasks

\* A validator that stays on a task it found not done.
next_idx_after_validation_retry(current_idx, v) ==
    IF v = "notdone" THEN current_idx ELSE current_idx + 1

\* validator_node: "current_task_idx": current_idx + 1, whatever the verdict
next_idx_after_validation(current_idx, v) == current_idx + 1

\* validator_node, followed by should_continue_after_validation
validator_node ==
    /\ "graph" \in running
    /\ graph_node = "validator"
    /\ IF graph_current_task_idx >= Len(graph_tasks)
       THEN /\ graph_node' = should_continue_after_validation(graph_current_task_idx,
                                                              graph_tasks)
            /\ UNCHANGED <<envVars, graph_tasks, graph_current_task_idx, graph_trace>>
       ELSE /\ \E v \in ValChoice(graph_current_task_idx + 1) :
                /\ env_val' = [env_val EXCEPT ![graph_current_task_idx + 1] = v]
                /\ graph_tasks' = GraphTasksAfterValidation(graph_tasks,
                                      graph_current_task_idx + 1, v)
                /\ graph_trace' = Append(graph_trace,
                       Event("validate", graph_current_task_idx + 1,
                             chain_tool_calls("validate"), v = "fail",
                             ValidationResults(graph_session_outputs)))
                /\ graph_current_task_idx' =
                       next_idx_after_validation(graph_current_task_idx, v)
                /\ graph_node' = should_continue_after_validation(
                       next_idx_after_validation(graph_current_task_idx, v), graph_tasks)
            /\ UNCHANGED <<running, query, env_plan, env_exec, env_ans>>
    /\ UNCHANGED <<graph_session_outputs, graph_current_task_result, graph_answer>>
    /\ UNCHANGED <<agentVars, toolVars>>

\* answerer_node, followed by the edge answerer -> END
answerer_node ==
    /\ "graph" \in running
    /\ graph_node = "answerer"
    /\ \E a \in AnsChoice :
        /\ env_ans' = a
        /\ graph_answer' = answerer_answer(a, query, graph_session_outputs)
        /\ graph_trace' = Append(graph_trace,
               Event("answer", 0, chain_tool_calls("answer"), a = "fail",
                     AllResults(graph_session_outputs)))
    /\ graph_node' = "END"
    /\ UNCHANGED <<running, query, env_plan, env_exec, env_val, graph_tasks, graph_current_task_idx,
                   graph_session_outputs, graph_current_task_result>>
    /\ UNCHANGED <<agentVars, toolVars>>

GraphNext == planner_node \/ executor_node \/ validator_node \/ answerer_node

\* ------------------------------------------------------- tools (tools.py)

\* _get_tavily_limit: int(TAVILY_MAX_SEARCHES_PER_SESSION), or None when the
\* variable is unset or no integer
NoLimit == [configured |-> FALSE, value |-> 0]
Limit(n) == [configured |-> TRUE, value |-> n]
TavilyLimits == {NoLimit} \cup {Limit(n) : n \in 0..MaxLimit}

\* An off-by-one limit check: `>` where the code has `>=`.
can_search_off_by_one(limit, count) ==
    IF ~limit.configured THEN TRUE
    ELSE IF count > limit.value THEN FALSE
    ELSE TRUE

\* _check_tavily_limit: can_search
can_search(limit, count) ==
    IF ~limit.configured THEN TRUE
    ELSE IF count >= limit.value THEN FALSE
    ELSE TRUE

\* An increment that counts a search twice.
increment_tavily_count_twice(count) == count + 2

\* _increment_tavily_count
increment_tavily_count(count) == count + 1

NoSearch == [result |-> "none", provider |-> FALSE, successes_before |-> 0,
             count_before |-> 0]

\* search_web: the limit check, the credential check, the provider call
\* (which returns or raises), the increment after a successful search.
search_web ==
    /\ search_calls < MaxSearchCalls
    /\ search_calls' = search_calls + 1
    /\ IF ~can_search(tavily_limit, tavily_search_count)
       THEN /\ last_search' = [result |-> "error: limit", provider |-> FALSE,
                               successes_before |-> search_successes,
                               count_before |-> tavily_search_count]
            /\ UNCHANGED <<tavily_search_count, search_successes, provider_calls>>
       ELSE \E has_key \in BOOLEAN, provider_ok \in BOOLEAN :
            IF ~has_key
            THEN /\ last_search' = [result |-> "error: no key", provider |-> FALSE,
                                    successes_before |-> search_successes,
                                    count_before |-> tavily_search_count]
                 /\ UNCHANGED <<tavily_search_count, search_successes, provider_calls>>
            ELSE IF ~provider_ok
            THEN /\ last_search' = [result |-> "error: search failed", provider |-> TRUE,
                                    successes_before |-> search_successes,
                                    count_before |-> tavily_search_count]
                 /\ provider_calls' = provider_calls + 1
                 /\ UNCHANGED <<tavily_search_count, search_successes>>
            ELSE /\ last_search' = [result |-> "response", provider |-> TRUE,
                                    successes_before |-> search_successes,
                                    count_before |-> tavily_search_count]
                 /\ provider_calls' = provider_calls + 1
                 /\ tavily_search_count' = increment_tavily_count(tavily_search_count)
                 /\ search_successes' = search_successes + 1
    /\ last_tool' = "search_web"
    /\ UNCHANGED <<tavily_limit, calc_expression, calc_result, threadVars>>
    /\ UNCHANGED <<envVars, agentVars, graphVars>>

\* allowed_chars = set('0123456789+-*/(). ')
allowed_chars ==
    {"0", "1", "2", "3", "4", "5", "6", "7", "8", "9",
     "+", "-", "*", "/", "(", ")", ".", " "}

\* The characters expressions are drawn from: a digit, operators,
\* parentheses, the point, the space, the tab, a letter.
CalcChars == {"2", "+", ".", " ", "(", ")", "\t", "i"}
Expressions == UNION {[1..n -> CalcChars] : n \in 0..MaxExprLen}

\* eval(expression): Python's evaluator returns a value or raises an
\* Exception (SyntaxError, ZeroDivisionError, ...).
EvalOutcomes == {"value", "raise"}

NoCalc == [output |-> "none", evaluated |-> FALSE]

\* calculator: the character check, then eval inside try/except Exception.
\* e is the outcome of eval when it is reached.
calculator_result(expression, e) ==
    IF ~(\A k \in DOMAIN expression : expression[k] \in allowed_chars)
    THEN [output |-> "Error: Invalid characters in expression.", evaluated |-> FALSE]
    ELSE IF e = "value"
    THEN [output |-> "{expression} = {result}", evaluated |-> TRUE]
    ELSE [output |-> "Error calculating '{expression}': {str(e)}", evaluated |-> TRUE]

calculator ==
    /\ \E e \in EvalOutcomes : calc_result' = calculator_result(calc_expression, e)
    /\ last_tool' = "calculator"
    /\ UNCHANGED threadVars
    /\ UNCHANGED <<tavily_search_count, tavily_limit, search_calls, search_successes,
                   provider_calls, last_search, calc_expression>>
    /\ UNCHANGED <<envVars, agentVars, graphVars>>

\* current_date: reads the clock and formats it
current_date ==
    /\ last_tool' = "current_date"
    /\ UNCHANGED threadVars
    /\ UNCHANGED <<tavily_search_count, tavily_limit, search_calls, search_successes,
                   provider_calls, last_search, calc_expression, calc_result>>
    /\ UNCHANGED <<envVars, agentVars, graphVars>>

\* get_stock_info: the snapshot of yf.Ticker(ticker).info, or an error
\* value when the lookup raises
get_stock_info ==
    /\ last_tool' = "get_stock_info"
    /\ UNCHANGED threadVars
    /\ UNCHANGED <<tavily_search_count, tavily_limit, search_calls, search_successes,
                   provider_calls, last_search, calc_expression, calc_result>>
    /\ UNCHANGED <<envVars, agentVars, graphVars>>

ToolsNext == search_web \/ calculator \/ current_date \/ get_stock_info

\* cli.main's loop starts a run on the next query: agent.run(query) sets
\* up the run's own state (tasks, session_outputs, answer) afresh and
\* touches nothing of the tool module.
cli_run_query ==
    /\ query' \in Queries
    /\ env_plan' = Unset
    /\ env_exec' = [i \in 1..MaxTasks |-> ExecUnset]
    /\ env_val' = [i \in 1..MaxTasks |-> "unset"]
    /\ env_ans' = "unset"
    /\ agent_pc' = "plan" /\ agent_tasks' = <<>> /\ agent_pos' = 1
    /\ agent_session_outputs' = <<>> /\ agent_answer' = NoAnswer /\ agent_trace' = <<>>
    /\ graph_node' = "planner" /\ graph_tasks' = <<>> /\ graph_current_task_idx' = 0
    /\ graph_session_outputs' = <<>> /\ graph_current_task_result' = "empty"
    /\ graph_answer' = NoAnswer /\ graph_trace' = <<>>
    /\ last_tool' = "run"
    /\ UNCHANGED threadVars
    /\ UNCHANGED <<running, tavily_search_count, tavily_limit, search_calls,
                   search_successes, provider_calls, last_search,
                   calc_expression, calc_result>>

\* The events of the process the tool module lives in.
ProcessNext == ToolsNext \/ cli_run_query

\* search_web called from several threads of one process. A thread may be
\* suspended between any two of its steps: the limit check, the provider
\* call, and the read and the write of `_tavily_search_count += 1`.
Threads == 1..NumThreads

ThreadFrame ==
    /\ UNCHANGED <<tavily_limit, last_search, calc_expression, calc_result, last_tool>>
    /\ UNCHANGED <<envVars, agentVars, graphVars>>

\* can_search, message = _check_tavily_limit(); if not can_search: return
thread_check_limit(t) ==
    /\ thread_pc[t] = "idle"
    /\ search_calls < MaxSearchCalls
    /\ search_calls' = search_calls + 1
    /\ thread_pc' = [thread_pc EXCEPT ![t] =
           IF can_search(tavily_limit, tavily_search_count) THEN "search" ELSE "idle"]
    /\ UNCHANGED <<tavily_search_count, search_successes, provider_calls, thread_count>>
    /\ ThreadFrame

\* The credential check and response = tavily_client.search(...): without
\* a key the call returns an error; the provider returns, or raises and
\* the call ends in the except branch.
thread_provider_search(t) ==
    /\ thread_pc[t] = "search"
    /\ \E has_key \in BOOLEAN, provider_ok \in BOOLEAN :
        IF ~has_key
        THEN /\ thread_pc' = [thread_pc EXCEPT ![t] = "idle"]
             /\ UNCHANGED <<search_successes, provider_calls>>
        ELSE IF provider_ok
        THEN /\ provider_calls' = provider_calls + 1
             /\ search_successes' = search_successes + 1
             /\ thread_pc' = [thread_pc EXCEPT ![t] = "increment"]
        ELSE /\ provider_calls' = provider_calls + 1
             /\ thread_pc' = [thread_pc EXCEPT ![t] = "idle"]
             /\ UNCHANGED search_successes
    /\ UNCHANGED <<tavily_search_count, search_calls, thread_count>>
    /\ ThreadFrame

\* _increment_tavily_count: the read of the global
thread_read_count(t) ==
    /\ thread_pc[t] = "increment"
    /\ thread_count' = [thread_count EXCEPT ![t] = tavily_search_count]
    /\ thread_pc' = [thread_pc EXCEPT ![t] = "store"]
    /\ UNCHANGED <<tavily_search_count, search_calls, search_successes, provider_calls>>
    /\ ThreadFrame

\* _increment_tavily_count: the write of the global; the call returns
thread_write_count(t) ==
    /\ thread_pc[t] = "store"
    /\ tavily_search_count' = increment_tavily_count(thread_count[t])
    /\ thread_count' = [thread_count EXCEPT ![t] = 0]
    /\ thread_pc' = [thread_pc EXCEPT ![t] = "idle"]
    /\ UNCHANGED <<search_calls, search_successes, provider_calls>>
    /\ ThreadFrame

ThreadsNext ==
    \E t \in Threads :
        \/ thread_check_limit(t)
        \/ thread_provider_search(t)
        \/ thread_read_count(t)
        \/ thread_write_count(t)

\* ------------------------------------------------------------------- Init

InitEnv ==
    /\ query \in Queries
    /\ env_plan = Unset
    /\ env_exec = [i \in 1..MaxTasks |-> ExecUnset]
    /\ env_val = [i \in 1..MaxTasks |-> "unset"]
    /\ env_ans = "unset"

\* Agent.run: session_outputs = []
InitAgent ==
    /\ agent_pc = "plan"
    /\ agent_tasks = <<>>
    /\ agent_pos = 1
    /\ agent_session_outputs = <<>>
    /\ agent_answer = NoAnswer
    /\ agent_trace = <<>>

\* AgentGraph.run: initial_state
InitGraph ==
    /\ graph_node = "planner"
    /\ graph_tasks = <<>>
    /\ graph_current_task_idx = 0
    /\ graph_session_outputs = <<>>
    /\ graph_current_task_result = "empty"
    /\ graph_answer = NoAnswer
    /\ graph_trace = <<>>

\* tools.py: _tavily_search_count = 0
InitTools ==
    /\ tavily_search_count = 0
    /\ tavily_limit \in TavilyLimits
    /\ search_calls = 0
    /\ search_successes = 0
    /\ provider_calls = 0
    /\ last_search = NoSearch
    /\ calc_expression \in Expressions
    /\ calc_result = NoCalc
    /\ last_tool = "none"
    /\ thread_pc = [t \in Threads |-> "idle"]
    /\ thread_count = [t \in Threads |-> 0]

\* cli.main constructs AgentGraph under --use-graph and Agent otherwise.
Init ==
    /\ running \in {{"agent"}, {"graph"}}
    /\ InitEnv /\ InitAgent /\ InitGraph /\ InitTools
    /\ tavily_limit = NoLimit
    /\ calc_expression = <<>>

\* Both orchestrators, constructed side by side and run on the same query.
InitBoth ==
    /\ running = {"agent", "graph"}
    /\ InitEnv /\ InitAgent /\ InitGraph /\ InitTools
    /\ tavily_limit = NoLimit
    /\ calc_expression = <<>>

\* The tool module on its own: a process that calls search_web.
InitSearch ==
    /\ running = {}
    /\ InitEnv /\ InitAgent /\ InitGraph /\ InitTools
    /\ calc_expression = <<"2", "+", "2">>

\* calculator on its own, called with any expression of at most
\* MaxExprLen characters.
InitCalc ==
    /\ running = {}
    /\ InitEnv /\ InitAgent /\ InitGraph /\ InitTools
    /\ tavily_limit = NoLimit

Next == AgentNext \/ GraphNext

Spec == Init /\ [][Next]_vars

\* Each gateway or tool call returns or raises, so a run that can take a
\* step takes it.
FairSpec == Init /\ [][Next]_vars /\ WF_vars(Next)

SpecBoth == InitBoth /\ [][Next]_vars

SpecTools == InitSearch /\ [][ProcessNext]_vars

SpecCalc == InitCalc /\ [][calculator]_vars

\* Concurrent search_web calls on the process-wide counter.
SpecThreads == InitSearch /\ [][ThreadsNext]_vars

\* ---------------------------------------------------------- the two runs

Trace(o) == IF o = "agent" THEN agent_trace ELSE graph_trace
Tasks(o) == IF o = "agent" THEN agent_tasks ELSE graph_tasks
SessionOutputs(o) == IF o = "agent" THEN agent_session_outputs ELSE graph_session_outputs
Answer(o) == IF o = "agent" THEN agent_answer ELSE graph_answer
Ended(o) == IF o = "agent" THEN agent_pc = "done" ELSE graph_node = "END"
\* The orchestrator has left the task at plan position i behind.
MovedPast(o, i) ==
    IF o = "agent" THEN agent_pos > i ELSE graph_current_task_idx >= i
\* The events of a trace with operation op.
EventsOf(o, op) == {k \in DOMAIN Trace(o) : Trace(o)[k].op = op}

AgentDone == "agent" \in running => agent_pc = "done"
GraphDone == "graph" \in running => graph_node = "END"

\* ------------------------------------------------------------------ claims

\* C1: for every query and every sequence of gateway and tool outcomes,
\* failures included, Agent.run and AgentGraph.run reach their terminal
\* state and return an answer; no run loops forever.
C1_Terminates ==
    <>(\A o \in running : Ended(o) /\ Trace(o)[Len(Trace(o))].op = "answer")

\* A run that ended although every call it made failed.
C1_Witness ==
    /\ running # {}
    /\ \A o \in running : Ended(o) /\ Answer(o) = FallbackAnswer
    /\ env_plan.kind = "fail"
    /\ env_exec[1].kind = "raise"
    /\ env_ans = "fail"

\* C2: when the validation call for task i fails, task i is done
\* afterwards and the orchestrator goes on to the next task (or to the
\* answer): task i is neither executed nor validated again.
C2_ValidatorFailureForcesDone ==
    \A o \in running : \A k \in EventsOf(o, "validate") :
        Trace(o)[k].raised =>
            /\ Tasks(o)[Trace(o)[k].task].done
            /\ MovedPast(o, Trace(o)[k].task)
            /\ \A m \in (k + 1)..Len(Trace(o)) : Trace(o)[m].task # Trace(o)[k].task

\* C3: when the execution of task i raises, task i is done by the time
\* the orchestrator has moved past it.
C3_ExecErrorForcesDone ==
    \A o \in running : \A k \in EventsOf(o, "exec") :
        (Trace(o)[k].raised /\ MovedPast(o, Trace(o)[k].task)) =>
            Tasks(o)[Trace(o)[k].task].done

\* C4: the call made after the execution of task i, whether it raised or
\* not, is the validation of task i.
C4_ExecThenValidate ==
    \A o \in running : \A k \in EventsOf(o, "exec") :
        k < Len(Trace(o)) =>
            /\ Trace(o)[k + 1].op = "validate"
            /\ Trace(o)[k + 1].task = Trace(o)[k].task

\* The executions and validations of a run, in order: <<operation, task>>.
CallSequence(trace) ==
    LET IsCall(e) == e.op \in {"exec", "validate"}
        sel == SelectSeq(trace, IsCall)
    IN  [k \in DOMAIN sel |-> <<sel[k].op, sel[k].task>>]

\* C5: run on the same query with the same outcomes, Agent.run and
\* AgentGraph.run make the same executions and validations in the same
\* order and end with the same done flags, the same session log and the
\* same answer.
C5_Equivalent ==
    (agent_pc = "done" /\ graph_node = "END") =>
        /\ CallSequence(agent_trace) = CallSequence(graph_trace)
        /\ agent_tasks = graph_tasks
        /\ agent_session_outputs = graph_session_outputs
        /\ agent_answer = graph_answer

\* The sub-loop steps (tool invocations) of all task executions of a run.
RECURSIVE SubLoopSteps(_)
SubLoopSteps(trace) ==
    IF trace = <<>> THEN 0
    ELSE trace[Len(trace)].calls + SubLoopSteps(SubSeq(trace, 1, Len(trace) - 1))

\* C6: a run performs at most max_steps sub-loop steps over all its task
\* executions.
C6_MaxStepsBoundsRun ==
    \A o \in running : SubLoopSteps(Trace(o)) <= max_steps

\* C7: when the planner returns no task, the orchestrator goes from
\* planning straight to answering: it executes and validates nothing, the
\* session log stays empty, and the answer call is given the
\* "No data was collected." placeholder.
C7_EmptyPlanAnswersDirectly ==
    \A o \in running :
        (Trace(o) # <<>> /\ Tasks(o) = <<>>) =>
            /\ IF o = "agent" THEN agent_pc \in {"answer", "done"}
               ELSE graph_node \in {"answerer", "END"}
            /\ SessionOutputs(o) = <<>>
            /\ Len(Trace(o)) <= 2
            /\ Len(Trace(o)) = 2 =>
                /\ Trace(o)[2].op = "answer"
                /\ Trace(o)[2].arg = Literal("No data was collected.")

\* A run that ended on an empty plan the gateway returned.
C7_Witness ==
    \E o \in running :
        /\ Ended(o)
        /\ env_plan = [kind |-> "ok", tasks |-> <<>>]
        /\ Tasks(o) = <<>>
        /\ Len(Trace(o)) = 2
        /\ Answer(o) = GatewayAnswer(query, Literal("No data was collected."))

\* C8: in a run that ended, after an execution of task i that raised,
\* every later task was executed, or skipped because it was already done,
\* and the answer was synthesized.
C8_ErrorDoesNotAbort ==
    \A o \in running : Ended(o) =>
        \A k \in EventsOf(o, "exec") : Trace(o)[k].raised =>
            /\ \A j \in (Trace(o)[k].task + 1)..Len(Tasks(o)) :
                   \E m \in (k + 1)..Len(Trace(o)) :
                       /\ Trace(o)[m].task = j
                       /\ Trace(o)[m].op \in {"exec", "skip"}
            /\ Trace(o)[Len(Trace(o))].op = "answer"

\* C9: with a ceiling N configured, a search_web call made when N calls
\* have already succeeded returns the limit error and calls no provider.
C9_QuotaEnforced ==
    (/\ tavily_limit.configured
     /\ last_search.result # "none"
     /\ last_search.successes_before >= tavily_limit.value) =>
        /\ last_search.result = "error: limit"
        /\ ~last_search.provider

\* The call after the N-th success, rejected.
C9_Witness ==
    /\ tavily_limit = Limit(MaxLimit)
    /\ search_successes = MaxLimit
    /\ last_search.successes_before = MaxLimit
    /\ last_search.result = "error: limit"
    /\ provider_calls = MaxLimit

\* C10: the plan the planner hands over has ids 1..n in plan order and
\* done = false on every task, whatever the gateway returned.
C10_PlanNormalised ==
    \A o \in running :
        Len(Trace(o)) = 1 =>
            \A i \in DOMAIN Tasks(o) : Tasks(o)[i].id = i /\ ~Tasks(o)[i].done

\* C11: when the planning call fails, the plan is the single task
\* Task(id=1, description=query, done=False); when the call succeeds with
\* an empty plan, the plan is empty.
C11_PlanFallback ==
    \A o \in running :
        Len(Trace(o)) = 1 =>
            /\ env_plan.kind = "fail" => Tasks(o) = <<Task(1, query, FALSE)>>
            /\ env_plan = [kind |-> "ok", tasks |-> <<>>] => Tasks(o) = <<>>

\* The planner has just fallen back after a failed planning call.
C11_Witness ==
    \E o \in running :
        /\ Len(Trace(o)) = 1
        /\ Trace(o)[1].op = "plan" /\ Trace(o)[1].raised
        /\ env_plan.kind = "fail"
        /\ Tasks(o) = <<Task(1, query, FALSE)>>

\* The number of log entries appended by the first k events of a trace:
\* an execution that returns appends one entry per tool call it made.
RECURSIVE LoggedBy(_, _)
LoggedBy(trace, k) ==
    IF k = 0 THEN 0
    ELSE LoggedBy(trace, k - 1) +
         (IF trace[k].op = "exec" /\ ~trace[k].raised THEN trace[k].calls ELSE 0)

\* C12: the context of an execution that starts on a log of n entries is
\* the placeholder when n = 0, and otherwise the last min(n, 5) entries of
\* the log, in log order, joined by newlines.
C12_ContextIsLastFive ==
    \A o \in running : \A k \in EventsOf(o, "exec") :
        LET n == LoggedBy(Trace(o), k - 1)
            log == SubSeq(SessionOutputs(o), 1, n)
            ctx == Trace(o)[k].arg
            m == IF n > ContextWindow THEN ContextWindow ELSE n
        IN  IF n = 0 THEN ctx = Literal("No previous context.")
            ELSE /\ ctx.sep = "\n" /\ ctx.text = ""
                 /\ Len(ctx.items) = m
                 /\ \A j \in 1..m : ctx.items[j] = log[n - m + j]

\* An execution that started on a log of more than 5 entries.
C12_Witness ==
    \E o \in running : \E k \in EventsOf(o, "exec") :
        /\ LoggedBy(Trace(o), k - 1) > ContextWindow
        /\ Len(Trace(o)[k].arg.items) = ContextWindow
        /\ Trace(o)[k].arg.items[1] # SessionOutputs(o)[1]

\* C13: a run whose answer call failed returns "Unable to generate answer
\* due to an error.", and no run returns the empty string.
C13_AnswerNeverEmpty ==
    \A o \in running : Ended(o) =>
        /\ env_ans = "fail" => Answer(o) = FallbackAnswer
        /\ Answer(o) # EmptyString

\* The characters the calculator's contract allows: digits, the point,
\* whitespace, and + - * / ( ).
ContractChars ==
    {"0", "1", "2", "3", "4", "5", "6", "7", "8", "9", ".",
     " ", "\t", "\n", "+", "-", "*", "/", "(", ")"}

\* C14: calculator rejects an expression with a character outside the
\* contract's characters without evaluating it, citing invalid characters;
\* an expression made of the contract's characters only is evaluated, and
\* the call returns a result string or an error string.
C14_CalculatorContract ==
    calc_result # NoCalc =>
        IF \E k \in DOMAIN calc_expression : calc_expression[k] \notin ContractChars
        THEN /\ ~calc_result.evaluated
             /\ calc_result.output = "Error: Invalid characters in expression."
        ELSE /\ calc_result.evaluated
             /\ calc_result.output \in {"{expression} = {result}",
                                        "Error calculating '{expression}': {str(e)}"}

C16_DoneTaskNotExecuted ==
    \A o \in running :
        /\ \A k \in EventsOf(o, "skip") :
               /\ Trace(o)[k].calls = 0
               /\ MovedPast(o, Trace(o)[k].task)
        /\ \A i \in DOMAIN Tasks(o) :
               (env_plan.kind = "ok" /\ env_plan.tasks[i].done) =>
                   \A k \in EventsOf(o, "exec") : Trace(o)[k].task # i

\* A run that ended after passing over a done task that lies between two
\* tasks it executed.
C16_Witness ==
    \E o \in running :
        /\ Ended(o)
        /\ Len(Tasks(o)) = 3
        /\ env_plan.tasks[2].done
        /\ \E k \in EventsOf(o, "skip") : Trace(o)[k].task = 2
        /\ \E k \in EventsOf(o, "exec") : Trace(o)[k].task = 1
        /\ \E k \in EventsOf(o, "exec") : Trace(o)[k].task = 3

\* The planner returned the task at position i already done.
PlannedDone(i) == env_plan.kind = "ok" /\ env_plan.tasks[i].done

\* C17: once the answer is synthesized, every task the planner did not
\* return done has been executed; and every validation of a task comes
\* right after an execution of that task.
C17_ExecutedBeforeValidated ==
    \A o \in running :
        /\ EventsOf(o, "answer") # {} =>
               \A i \in DOMAIN Tasks(o) :
                   ~PlannedDone(i) => \E k \in EventsOf(o, "exec") : Trace(o)[k].task = i
        /\ \A k \in EventsOf(o, "validate") :
               /\ Trace(o)[k - 1].op = "exec"
               /\ Trace(o)[k - 1].task = Trace(o)[k].task

\* The gateway responses of one task execution, for the task at plan
\* position i.
DecisionsOf(i) == env_exec[i].decisions

\* The tool calls asked for by the first j responses.
RECURSIVE AskedBy(_, _)
AskedBy(d, j) == IF j = 0 THEN 0 ELSE AskedBy(d, j - 1) + d[j]

\* The number of responses the executor obtained: up to the first one
\* without a tool decision, max_steps_per_task at most.
RECURSIVE ResponsesUsed(_, _)
ResponsesUsed(d, n) ==
    IF n >= Len(d) \/ n >= max_steps_per_task THEN n
    ELSE IF d[n + 1] = 0 THEN n + 1
    ELSE ResponsesUsed(d, n + 1)

\* C18: one task execution makes at most max_steps_per_task tool
\* invocations, and none after a response without a tool decision; a run
\* makes at most max_steps_per_task * |plan| tool invocations.
C18_PerTaskCeiling ==
    \A o \in running :
        /\ \A k \in EventsOf(o, "exec") :
               LET d == DecisionsOf(Trace(o)[k].task) IN
               /\ Trace(o)[k].calls <= max_steps_per_task
               /\ \A j \in DOMAIN d :
                      d[j] = 0 => Trace(o)[k].calls <= AskedBy(d, j - 1)
        /\ SubLoopSteps(Trace(o)) <= max_steps_per_task * Len(Tasks(o))

\* C19: every response the gateway gave inside a task execution asked
\* for at most one tool call.
C19_OneToolCallPerResponse ==
    \A o \in running : \A k \in EventsOf(o, "exec") :
        LET d == DecisionsOf(Trace(o)[k].task) IN
        \A j \in 1..ResponsesUsed(d, 0) : d[j] <= 1

\* C20: a search_web call that returns the provider's response adds one
\* to the search counter; every other event (a call rejected by the
\* limit, a call without credential, a provider error, a call of another
\* tool, the start of a run on a new query) leaves the counter as it is.
C20_CounterFrame ==
    [][tavily_search_count' =
           IF last_tool' = "search_web" /\ last_search'.result = "response"
           THEN tavily_search_count + 1
           ELSE tavily_search_count]_vars

\* A new run started after the counter reached the limit and a call was
\* rejected: the counter still stands at the limit.
C20_Witness ==
    /\ last_tool = "run"
    /\ tavily_limit = Limit(MaxLimit)
    /\ last_search.result = "error: limit"
    /\ tavily_search_count = MaxLimit
    /\ search_successes = MaxLimit
    /\ calc_result # NoCalc

\* C21: with a ceiling N configured, under every interleaving of
\* concurrent search_web calls the counter never exceeds N and at most N
\* searches succeed at the provider.
C21_ConcurrentQuota ==
    tavily_limit.configured =>
        /\ tavily_search_count <= tavily_limit.value
        /\ search_successes <= tavily_limit.value

IsPrefix(a, b) == Len(a) <= Len(b) /\ SubSeq(b, 1, Len(a)) = a

\* The records of a log stand in task order, and in step order within a
\* task.
InTaskOrder(log) ==
    \A a \in DOMAIN log : \A b \in DOMAIN log :
        a < b => \/ log[a].task < log[b].task
                 \/ log[a].task = log[b].task /\ log[a].step < log[b].step

\* C22: every step of a run leaves the earlier session log as a prefix of
\* the later one (nothing removed, reordered or rewritten), and the
\* records of task i stand before those of task j for i < j.
C22_LogAppendOnly ==
    [][/\ IsPrefix(agent_session_outputs, agent_session_outputs')
       /\ IsPrefix(graph_session_outputs, graph_session_outputs')
       /\ InTaskOrder(agent_session_outputs')
       /\ InTaskOrder(graph_session_outputs')]_vars

\* A log that holds the records of the first and of the last task.
C22_Witness ==
    \E o \in running :
        /\ Len(SessionOutputs(o)) > max_steps_per_task
        /\ SessionOutputs(o)[1].task = 1
        /\ SessionOutputs(o)[Len(SessionOutputs(o))].task = MaxTasks

\* C23: every validation is given the whole session log as it stands at
\* that moment, joined by newlines, and the answer call the whole final
\* log (or the placeholder for an empty log); neither is given the
\* 5-entry window of the execution context.
C23_WholeLogGiven ==
    \A o \in running :
        /\ \A k \in EventsOf(o, "validate") :
               Trace(o)[k].arg =
                   [text |-> "", sep |-> "\n",
                    items |-> SubSeq(SessionOutputs(o), 1, LoggedBy(Trace(o), k))]
        /\ \A k \in EventsOf(o, "answer") :
               /\ Trace(o)[k].arg.items = SessionOutputs(o)
               /\ SessionOutputs(o) # <<>> => Trace(o)[k].arg.sep = "\n\n"

\* A run whose last validation and whose answer call were given more
\* records than the context window holds.
C23_Witness ==
    \E o \in running :
        /\ Ended(o)
        /\ \E k \in EventsOf(o, "validate") :
               Len(Trace(o)[k].arg.items) > ContextWindow
        /\ \E k \in EventsOf(o, "answer") :
               Len(Trace(o)[k].arg.items) > ContextWindow

\* Before event k of its run, the orchestrator o executed the task at
\* position i or passed it over as done.
VisitedBefore(o, i, k) ==
    \E m \in 1..(k - 1) :
        Trace(o)[m].task = i /\ Trace(o)[m].op \in {"exec", "skip"}

\* C24: executions follow plan order; a task is executed only after the
\* task before it was executed or skipped; the answer is synthesized at
\* most once, as the last call of the run, after every task of the plan
\* was executed or skipped.
C24_PlanOrder ==
    \A o \in running :
        /\ \A k \in EventsOf(o, "exec") : \A m \in EventsOf(o, "exec") :
               k < m => Trace(o)[k].task <= Trace(o)[m].task
        /\ \A k \in EventsOf(o, "exec") :
               Trace(o)[k].task > 1 => VisitedBefore(o, Trace(o)[k].task - 1, k)
        /\ \A k \in EventsOf(o, "answer") :
               /\ k = Len(Trace(o))
               /\ EventsOf(o, "answer") = {k}
               /\ \A i \in DOMAIN Tasks(o) : VisitedBefore(o, i, k)

\* C25: no task is executed twice in a run; after a "not done" verdict
\* on task i the orchestrator has moved past task i, and task i is not
\* executed again.
C25_ExecutedAtMostOnce ==
    \A o \in running :
        /\ \A k \in EventsOf(o, "exec") : \A m \in EventsOf(o, "exec") :
               Trace(o)[k].task = Trace(o)[m].task => k = m
        /\ \A k \in EventsOf(o, "validate") :
               env_val[Trace(o)[k].task] = "notdone" =>
                   /\ MovedPast(o, Trace(o)[k].task)
                   /\ \A m \in (k + 1)..Len(Trace(o)) :
                          Trace(o)[m].task # Trace(o)[k].task

\* A run that ended with its first task executed once, found not done
\* and left not done, and a later task executed.
C25_Witness ==
    \E o \in running :
        /\ Ended(o)
        /\ Len(Tasks(o)) >= 2
        /\ env_val[1] = "notdone"
        /\ ~Tasks(o)[1].done
        /\ Trace(o)[2].op = "exec" /\ Trace(o)[2].task = 1
        /\ Trace(o)[3].op = "validate" /\ Trace(o)[3].task = 1
        /\ \E k \in EventsOf(o, "exec") : Trace(o)[k].task = 2

\* C26: every tool invocation of a run belongs to a task execution: the
\* planning, validation and answer calls, and the passing over of a done
\* task, invoke no tool, and the session log grows in execution steps
\* only.
C26_ToolsOnlyWhileExecuting ==
    \A o \in running :
        /\ \A k \in DOMAIN Trace(o) :
               Trace(o)[k].op # "exec" => Trace(o)[k].calls = 0
        /\ Len(SessionOutputs(o)) = LoggedBy(Trace(o), Len(Trace(o)))

\* A run that ended with tool invocations in an execution, after a
\* planning call, a validation and an answer call.
C26_Witness ==
    \E o \in running :
        /\ Ended(o)
        /\ EventsOf(o, "validate") # {}
        /\ \E k \in EventsOf(o, "exec") : Trace(o)[k].calls > 0
        /\ SubLoopSteps(Trace(o)) = Len(SessionOutputs(o))

\* From one state of the plan to the next, nothing changed but done
\* flags that went from false to true.
OnlyDoneFlagsSet(before, after) ==
    /\ Len(after) = Len(before)
    /\ \A i \in DOMAIN before :
           /\ after[i].id = before[i].id
           /\ after[i].description = before[i].description
           /\ before[i].done => after[i].done

\* C27: in every step after planning the plan keeps its length, order,
\* ids and descriptions, and a done flag only goes from false to true.
C27_PlanFrame ==
    [][/\ agent_pc # "plan" => OnlyDoneFlagsSet(agent_tasks, agent_tasks')
       /\ graph_node # "planner" => OnlyDoneFlagsSet(graph_tasks, graph_tasks')]_vars

\* A run that ended with a task set done that the planner returned not
\* done, next to a task left as the planner returned it.
C27_Witness ==
    \E o \in running :
        /\ Ended(o)
        /\ env_plan.kind = "ok" /\ Len(env_plan.tasks) = MaxTasks
        /\ ~env_plan.tasks[1].done /\ Tasks(o)[1].done
        /\ Tasks(o)[2] = env_plan.tasks[2]
        /\ OnlyDoneFlagsSet(env_plan.tasks, Tasks(o))

\* The step appends to the trace an execution that raised.
ExecRaisedStep(before, after) ==
    /\ Len(after) = Len(before) + 1
    /\ after[Len(after)].op = "exec"
    /\ after[Len(after)].raised

\* C28: a step in which the execution of a task raises leaves the
\* session log as it was, also when tool calls completed before the
\* error; the log never holds a record of a task whose execution raised.
C28_ExecErrorLeavesLog ==
    [][/\ ExecRaisedStep(agent_trace, agent_trace') =>
              agent_session_outputs' = agent_session_outputs
       /\ ExecRaisedStep(graph_trace, graph_trace') =>
              graph_session_outputs' = graph_session_outputs
       /\ \A o \in running : \A k \in EventsOf(o, "exec") :
              Trace(o)[k].raised =>
                  \A a \in DOMAIN SessionOutputs(o) :
                      SessionOutputs(o)[a].task # Trace(o)[k].task]_vars

\* A run that ended with records of its first task only, the execution
\* of its second task having raised after one tool call.
C28_Witness ==
    \E o \in running :
        /\ Ended(o)
        /\ \E k \in EventsOf(o, "exec") :
               /\ Trace(o)[k].task = 2
               /\ Trace(o)[k].raised
               /\ Trace(o)[k].calls = 1
        /\ SessionOutputs(o) = NewOutputs(1, max_steps_per_task)
====
